---- MODULE Spec2Model ----
(***************************************************************************)
(* Model of scripts/dubgg_libiec_server.c: the generic control-binding     *)
(* registry, the two control handlers, the stdin bridge and main().        *)
(*                                                                         *)
(* C strings are sequences of one-character strings.  Model nodes are      *)
(* numbered 1..Len(iedModel); the null pointer is 0 (NULL).                *)
(***************************************************************************)
EXTENDS Integers, Sequences, FiniteSets, TLC

VARIABLES
    mdl,            \* which static device model (iedModel) the binary is linked with
    running,        \* static int running                          (line 10)
    gIedServer,     \* static IedServer gIedServer: NULL or the server (line 11)
    server,         \* lifecycle of the IedServer object gIedServer points to
    gBindings,      \* static ControlBinding* gBindings: NULL or a heap block (line 20)
    gBindingCount,  \* static int gBindingCount                    (line 21)
    heap,           \* the blocks realloc has handed out: [live, recs]
    handlers,       \* per control object: the parameters installed with its two handlers
    attrs,          \* per attribute: the value last pushed through the server update API
    main_pc,        \* position of main()
    exitCode,       \* value main returned, -1 while it has not
    ldIndex,        \* loop variable i of register_all_control_handlers
    stack,          \* pending `child` pointers of the traverse_and_register recursion
    visited,        \* nodes traverse_and_register was entered with, in order
    registered,     \* nodes register_control_binding was called with, in order
    growFailedAt,   \* Len(visited) when realloc last returned NULL, 0 if it never did
    rd_pc,          \* position of stdin_reader_thread
    nLines,         \* lines fgets has returned so far
    nCtl,           \* handler invocations the server has made so far
    last            \* what the most recent step did: inputs, API calls, output, result

vars == <<mdl, running, gIedServer, server, gBindings, gBindingCount, heap, handlers,
          attrs, main_pc, exitCode, ldIndex, stack, visited, registered, growFailedAt,
          rd_pc, nLines, nCtl, last>>

NULL == 0

-----------------------------------------------------------------------------
(* Bounds of the model.                                                    *)

\* control requests the protocol server dispatches in one run
MaxCtl == 1

\* lines the ingest thread reads in one run
MaxLines == 2

-----------------------------------------------------------------------------
(* Strings.                                                                *)

Oper == <<"O", "p", "e", "r">>
stVal == <<"s", "t", "V", "a", "l">>
tName == <<"t">>
DotStVal == <<".">> \o stVal

\* index of the first occurrence of character c in s, 0 when there is none
RECURSIVE IndexFrom(_, _, _)
IndexFrom(s, c, i) ==
    IF i > Len(s) THEN 0
    ELSE IF s[i] = c THEN i
    ELSE IndexFrom(s, c, i + 1)

strchr(s, c) == IndexFrom(s, c, 1)

-----------------------------------------------------------------------------
(* The static device models (ied_model.h / static_model.c of a build).     *)

LogicalDeviceModelType == "LogicalDeviceModelType"
LogicalNodeModelType == "LogicalNodeModelType"
DataObjectModelType == "DataObjectModelType"
DataAttributeModelType == "DataAttributeModelType"

IEC61850_FC_ST == "ST"
IEC61850_FC_CO == "CO"

Nd(kind, name, fc, type, parent, firstChild, sibling) ==
    [kind |-> kind, name |-> name, fc |-> fc, type |-> type,
     parent |-> parent, firstChild |-> firstChild, sibling |-> sibling]

LD(name, firstChild, sibling) ==
    Nd(LogicalDeviceModelType, name, "", "", NULL, firstChild, sibling)
LN(name, parent, firstChild, sibling) ==
    Nd(LogicalNodeModelType, name, "", "", parent, firstChild, sibling)
DO(name, parent, firstChild, sibling) ==
    Nd(DataObjectModelType, name, "", "", parent, firstChild, sibling)
DA(name, fc, type, parent, firstChild, sibling) ==
    Nd(DataAttributeModelType, name, fc, type, parent, firstChild, sibling)

\* Balanced: one logical node with four data objects.
\*   D/L.M  stVal t Oper{ctlVal}   controllable, time-stamped
\*   D/L.P  stVal Oper             controllable, no t
\*   D/L.Q  stVal t                no Oper
\*   D/L.R  Oper                   no stVal
ModelBalanced == <<
    LD(<<"D">>, 2, NULL),
    LN(<<"L">>, 1, 3, NULL),
    DO(<<"M">>, 2, 4, 8),
    DA(stVal, "ST", "INT32", 3, NULL, 5),
    DA(tName, "ST", "TIMESTAMP", 3, NULL, 6),
    DA(Oper, "CO", "CONSTRUCTED", 3, 7, NULL),
    DA(<<"c">>, "CO", "INT32", 6, NULL, NULL),
    DO(<<"P">>, 2, 9, 11),
    DA(stVal, "ST", "BOOLEAN", 8, NULL, 10),
    DA(Oper, "CO", "CONSTRUCTED", 8, NULL, NULL),
    DO(<<"Q">>, 2, 12, 14),
    DA(stVal, "ST", "FLOAT32", 11, NULL, 13),
    DA(tName, "ST", "TIMESTAMP", 11, NULL, NULL),
    DO(<<"R">>, 2, 15, NULL),
    DA(Oper, "CO", "CONSTRUCTED", 14, NULL, NULL) >>

\* Skewed single-child chain: a data object nested in a data object.
\*   D/L.M      only child is the sub data object S
\*   D/L.M.S    stVal (FC MX, found by the plain by-name lookup) Oper t
ModelChain == <<
    LD(<<"D">>, 2, NULL),
    LN(<<"L">>, 1, 3, NULL),
    DO(<<"M">>, 2, 4, NULL),
    DO(<<"S">>, 3, 5, NULL),
    DA(Oper, "CO", "CONSTRUCTED", 4, NULL, 6),
    DA(stVal, "MX", "FLOAT32", 4, NULL, 7),
    DA(tName, "MX", "TIMESTAMP", 4, NULL, NULL) >>

\* Two logical devices, a controllable data object in each.
\*   D/L.M  stVal Oper t     D/L.P  stVal     D/L.Q  (empty)     E/L.M  t stVal Oper
ModelTwoDevices == <<
    LD(<<"D">>, 3, 2),
    LD(<<"E">>, 10, NULL),
    LN(<<"L">>, 1, 4, NULL),
    DO(<<"M">>, 3, 5, 8),
    DA(stVal, "ST", "BOOLEAN", 4, NULL, 6),
    DA(Oper, "CO", "CONSTRUCTED", 4, NULL, 7),
    DA(tName, "ST", "TIMESTAMP", 4, NULL, NULL),
    DO(<<"P">>, 3, 9, 14),
    DA(stVal, "ST", "INT32", 8, NULL, NULL),
    LN(<<"L">>, 2, 11, NULL),
    DO(<<"M">>, 10, 12, NULL),
    DA(tName, "ST", "TIMESTAMP", 11, NULL, 13),
    DA(stVal, "ST", "INT32", 11, NULL, 15),
    DO(<<"Q">>, 3, NULL, NULL),
    DA(Oper, "CO", "CONSTRUCTED", 11, NULL, NULL) >>

Models == <<ModelBalanced, ModelChain, ModelTwoDevices>>

\* first logical device of each model (IedModel.firstChild)
FirstDevice == <<1, 1, 1>>

iedModel == Models[mdl]

Nodes == 1..Len(iedModel)

\* the children of node n in stored order: firstChild, then the sibling chain
RECURSIVE SiblingChain(_)
SiblingChain(n) ==
    IF n = NULL THEN <<>> ELSE <<n>> \o SiblingChain(iedModel[n].sibling)

Children(n) == SiblingChain(iedModel[n].firstChild)

-----------------------------------------------------------------------------
(* The libiec61850 model API, as the program calls it.                     *)

ModelNode_getType(n) == iedModel[n].kind

ModelNode_getName(n) == iedModel[n].name

ModelNode_getParent(n) == iedModel[n].parent

\* first node of the sibling chain starting at n that carries `name`; with a
\* functional constraint fc given, a data attribute only matches when it carries
\* fc and, for the last element of a name, only a data attribute matches.
\* NULL when there is none
RECURSIVE FindInChain(_, _, _, _)
FindInChain(n, name, fc, isLast) ==
    IF n = NULL THEN NULL
    ELSE IF /\ iedModel[n].name = name
            /\ \/ fc = ""
               \/ IF iedModel[n].kind = DataAttributeModelType
                  THEN iedModel[n].fc = fc
                  ELSE ~isLast
         THEN n
    ELSE FindInChain(iedModel[n].sibling, name, fc, isLast)

\* the lookup shared by ModelNode_getChild and ModelNode_getChildWithFc: name may
\* be dotted ("M.stVal"); each element selects the first matching child
RECURSIVE LookupChild(_, _, _)
LookupChild(self, name, fc) ==
    LET sep == strchr(name, ".")
        elem == IF sep = 0 THEN name ELSE SubSeq(name, 1, sep - 1)
        match == FindInChain(iedModel[self].firstChild, elem, fc, sep = 0)
    IN IF sep # 0 /\ match # NULL
       THEN LookupChild(match, SubSeq(name, sep + 1, Len(name)), fc)
       ELSE match

ModelNode_getChild(self, name) == LookupChild(self, name, "")

ModelNode_getChildWithFc(self, name, fc) == LookupChild(self, name, fc)

\* the logical devices in model order: IedModel.firstChild and its siblings
Devices == SiblingChain(FirstDevice[mdl])

IedModel_getLogicalDeviceCount == Len(Devices)

\* 0-based index, as in the C loop
IedModel_getDeviceByIndex(i) == Devices[i + 1]

\* ModelNode_getObjectReference(node, NULL): "LD/LN.DO.DA..."
RECURSIVE ModelNode_getObjectReference(_)
ModelNode_getObjectReference(n) ==
    LET p == iedModel[n].parent
    IN IF p = NULL THEN iedModel[n].name
       ELSE IF iedModel[p].kind = LogicalDeviceModelType
       THEN ModelNode_getObjectReference(p) \o <<"/">> \o iedModel[n].name
       ELSE ModelNode_getObjectReference(p) \o <<".">> \o iedModel[n].name

\* IedModel_getModelNodeByObjectReference(&iedModel, ref): the text before the
\* first '/' names the logical device; what follows is resolved below it
IedModel_getModelNodeByObjectReference(ref) ==
    LET sep == strchr(ref, "/")
        ldName == IF sep = 0 THEN ref ELSE SubSeq(ref, 1, sep - 1)
        ld == FindInChain(FirstDevice[mdl], ldName, "", TRUE)
    IN IF ld = NULL THEN NULL
       ELSE IF sep = 0 \/ sep = Len(ref) THEN ld
       ELSE ModelNode_getChild(ld, SubSeq(ref, sep + 1, Len(ref)))

-----------------------------------------------------------------------------
(* Values, API calls and output lines.                                     *)

MmsBoolean(b) == [type |-> "BOOLEAN", v |-> b]
MmsInt32(i) == [type |-> "INT32", v |-> i]
\* a float is kept as the decimal it was parsed from: num / 10^scale
MmsFloat(num, scale) == [type |-> "FLOAT", v |-> <<num, scale>>]
\* Hal_getTimeInMs(): the wall clock is abstracted to one value
UtcNow == [type |-> "UTCTIME", v |-> "now"]
Unset == [type |-> "NONE", v |-> "unset"]

UpdateCall(attr, value) ==
    [fn |-> "IedServer_updateAttributeValue", attr |-> attr, value |-> value]
UtcCall(attr) ==
    [fn |-> "IedServer_updateUTCTimeAttributeValue", attr |-> attr, value |-> UtcNow]

\* the attribute store after the API calls of one step, in order
RECURSIVE ApplyCalls(_, _)
ApplyCalls(store, calls) ==
    IF calls = <<>> THEN store
    ELSE ApplyCalls((Head(calls).attr :> Head(calls).value) @@ store, Tail(calls))

\* the value of attribute n in the store: what was last pushed to it, if anything
ValueIn(store, n) == IF n \in DOMAIN store THEN store[n] ELSE Unset

\* a line written to stdout: its fixed text and what the format fills in (a
\* reference, a value text, a number; <<>> or 0 where the format has none)
Line(prefix, ref, val, n) == [prefix |-> prefix, ref |-> ref, val |-> val, n |-> n]

\* the record `last` of a step: which operation ran, on which input, the server
\* API calls it made, the lines it wrote to stdout and what it returned
Did(op, input, calls, out, result) ==
    [op |-> op, input |-> input, calls |-> calls, out |-> out, result |-> result]

NoInput == [kind |-> "none"]

\* a ControlBinding* is a block and a place in it; this one is the null pointer
NullBinding == [blk |-> NULL, idx |-> 0]

-----------------------------------------------------------------------------
(* Initial state: the process image before main() runs.                    *)

Init ==
    /\ mdl \in 1..Len(Models)
    /\ running = 1
    /\ gIedServer = NULL
    /\ server = "none"
    /\ gBindings = NULL
    /\ gBindingCount = 0
    /\ heap = <<>>
    /\ handlers = <<>>
    /\ attrs = <<>>
    /\ main_pc = "create"
    /\ exitCode = -1
    /\ ldIndex = 0
    /\ stack = <<>>
    /\ visited = <<>>
    /\ registered = <<>>
    /\ growFailedAt = 0
    /\ rd_pc = "idle"
    /\ nLines = 0
    /\ nCtl = 0
    /\ last = Did("init", NoInput, <<>>, <<>>, "")

-----------------------------------------------------------------------------
(* Binding Registry: register_control_binding (lines 60-106).              *)

\* size of ControlBinding.reference
RefSize == 256

\* strncpy(dst, src, n) followed by dst[n] = '\0'
Strncpy(src, n) == IF Len(src) > n THEN SubSeq(src, 1, n) ELSE src

\* &gBindings[i] for 0-based i: the block and the 1-based place in it
BindingPtr(blk, i) == [blk |-> blk, idx |-> i + 1]

\* what realloc(gBindings, ...) may do: return NULL, grow the block where it
\* is, or hand out a new block and release the old one
ReallocOutcomes == IF gBindings = NULL THEN {"fail", "new"} ELSE {"fail", "inplace", "new"}

\* the heap after a successful realloc that leaves room for one more record
ReallocHeap(outcome) ==
    IF outcome = "inplace" THEN heap
    ELSE LET copied == IF gBindings = NULL THEN <<>>
                       ELSE SubSeq(heap[gBindings].recs, 1, gBindingCount)
             released == IF gBindings = NULL THEN heap
                         ELSE [heap EXCEPT ![gBindings].live = FALSE]
         IN Append(released, [live |-> TRUE, recs |-> copied])

\* the block a successful realloc returned
ReallocBlock(outcome) == IF outcome = "inplace" THEN gBindings ELSE Len(heap) + 1

\* lines 63-74: constraint-qualified lookup, else plain lookup by name
FindSub(node, name, fc) ==
    LET byFc == ModelNode_getChildWithFc(node, name, fc)
    IN IF byFc = NULL THEN ModelNode_getChild(node, name) ELSE byFc

\* a registration test that forgets the status attribute
Registrable_OperOnly(node) == FindSub(node, Oper, IEC61850_FC_CO) # NULL

\* lines 76-77: the data object is registered only with Oper and stVal
Registrable(node) ==
    /\ FindSub(node, Oper, IEC61850_FC_CO) # NULL
    /\ FindSub(node, stVal, IEC61850_FC_ST) # NULL

\* lines 86-100: the record written at gBindings[gBindingCount]
NewBinding(node) ==
    [controlDo |-> node,
     stValAttr |-> FindSub(node, stVal, IEC61850_FC_ST),
     tAttr |-> FindSub(node, tName, IEC61850_FC_ST),
     reference |-> Strncpy(ModelNode_getObjectReference(node), RefSize - 1)]

\* the outcomes of the realloc call of register_control_binding(node); a node
\* that returns at line 77 never reaches it
GrowOutcomes(node) == IF Registrable(node) THEN ReallocOutcomes ELSE {"skipped"}

\* line 105: what register_control_binding(node) prints
RegisterOut(node, outcome) ==
    IF outcome \in {"inplace", "new"}
    THEN <<Line("Registered control handler for", NewBinding(node).reference, <<>>, 0)>>
    ELSE <<>>

\* register_control_binding(node) when realloc behaves as `outcome`
register_control_binding(node, outcome) ==
    IF outcome = "skipped"
    THEN UNCHANGED <<gBindings, gBindingCount, heap, handlers, growFailedAt>>
    ELSE IF outcome = "fail"
    THEN /\ gBindings' = NULL
         /\ gBindingCount' = 0
         /\ growFailedAt' = Len(visited) + 1
         /\ UNCHANGED <<heap, handlers>>
    ELSE LET blk == ReallocBlock(outcome)
             grown == ReallocHeap(outcome)
             binding == BindingPtr(blk, gBindingCount)
             rec == NewBinding(node)
         IN /\ gBindings' = blk
            /\ gBindingCount' = gBindingCount + 1
            /\ heap' = [grown EXCEPT ![blk].recs = Append(@, rec)]
            /\ handlers' = (rec.controlDo :> [check |-> binding, control |-> binding])
                               @@ handlers
            /\ UNCHANGED growFailedAt

-----------------------------------------------------------------------------
(* Model Walker: traverse_and_register (lines 108-122) and the loop of     *)
(* register_all_control_handlers (lines 124-135).                          *)

\* a frame whose `child` is NULL has left its while loop and returned
RECURSIVE Unwind(_)
Unwind(st) ==
    IF st # <<>> /\ Head(st) = NULL THEN Unwind(Tail(st)) ELSE st

\* lines 111-117 for a non-null node: the node is visited and a data object is
\* handed to register_control_binding
Enter(node) ==
    /\ visited' = Append(visited, node)
    /\ IF ModelNode_getType(node) = DataObjectModelType
       THEN /\ registered' = Append(registered, node)
            /\ \E outcome \in GrowOutcomes(node) :
                 /\ register_control_binding(node, outcome)
                 /\ last' = Did("traverse_and_register",
                                [node |-> node, realloc |-> outcome],
                                <<>>, RegisterOut(node, outcome), "")
       ELSE /\ last' = Did("traverse_and_register",
                           [node |-> node, realloc |-> "skipped"], <<>>, <<>>, "")
            /\ UNCHANGED <<registered, gBindings, gBindingCount, heap, handlers,
                           growFailedAt>>

\* lines 129-131: traverse_and_register(ld) for the next logical device; its
\* frame starts with `child` at ld's firstChild
RegisterDevice ==
    /\ main_pc = "register"
    /\ stack = <<>>
    /\ ldIndex < IedModel_getLogicalDeviceCount
    /\ LET ld == IedModel_getDeviceByIndex(ldIndex)
       IN /\ Enter(ld)
          /\ stack' = Unwind(<<iedModel[ld].firstChild>>)
    /\ ldIndex' = ldIndex + 1
    /\ UNCHANGED <<mdl, running, gIedServer, server, attrs, main_pc, exitCode,
                   rd_pc, nLines, nCtl>>

\* a walk that moves on to the sibling before it descends into the child
TraverseChild_SiblingFirst ==
    /\ main_pc = "register"
    /\ stack # <<>>
    /\ LET child == Head(stack)
       IN /\ Enter(child)
          /\ stack' = Unwind(<<iedModel[child].sibling, iedModel[child].firstChild>>
                             \o Tail(stack))
    /\ UNCHANGED <<mdl, running, gIedServer, server, attrs, main_pc, exitCode,
                   ldIndex, rd_pc, nLines, nCtl>>

\* lines 117-121: the innermost loop calls traverse_and_register(child) and
\* moves its `child` on to the sibling; the callee's frame starts at firstChild
TraverseChild ==
    /\ main_pc = "register"
    /\ stack # <<>>
    /\ LET child == Head(stack)
       IN /\ Enter(child)
          /\ stack' = Unwind(<<iedModel[child].firstChild, iedModel[child].sibling>>
                             \o Tail(stack))
    /\ UNCHANGED <<mdl, running, gIedServer, server, attrs, main_pc, exitCode,
                   ldIndex, rd_pc, nLines, nCtl>>

\* line 134: the loop over the logical devices is over, the summary is printed
RegisterSummary ==
    /\ main_pc = "register"
    /\ stack = <<>>
    /\ ldIndex >= IedModel_getLogicalDeviceCount
    /\ main_pc' = "thread"
    /\ last' = Did("register_all_control_handlers", NoInput, <<>>,
                   <<Line("Registered %d controllable data object handlers",
                          <<>>, <<>>, gBindingCount)>>, "")
    /\ UNCHANGED <<mdl, running, gIedServer, server, gBindings, gBindingCount, heap,
                   handlers, attrs, exitCode, ldIndex, stack, visited, registered,
                   growFailedAt, rd_pc, nLines, nCtl>>

-----------------------------------------------------------------------------
(* Control Protocol Adapter (lines 23-58).                                 *)

CONTROL_ACCEPTED == "CONTROL_ACCEPTED"
CONTROL_RESULT_OK == "CONTROL_RESULT_OK"
CONTROL_RESULT_FAILED == "CONTROL_RESULT_FAILED"

\* the process died on a wild memory access
Crashed == "SIGSEGV"

ControlActions == {"select", "operate"}

ControlAction_isSelect(action) == action = "select"

\* candidate values a client may send, matching the target's type or not
CtlVals == {MmsBoolean(TRUE), MmsInt32(7)}

\* a check handler that refuses a request which asks for the interlock check
perform_check_handler_Interlock(action, parameter, ctlVal, test, interlockCheck) ==
    IF interlockCheck THEN "CONTROL_HARDWARE_FAULT" ELSE CONTROL_ACCEPTED

\* lines 23-32
perform_check_handler(action, parameter, ctlVal, test, interlockCheck) ==
    CONTROL_ACCEPTED

\* every record any block holds or held
AllRecords == UNION {{heap[b].recs[i] : i \in 1..Len(heap[b].recs)} : b \in 1..Len(heap)}

\* what reading *binding can yield.  A pointer into a live block yields the
\* record stored there.  A pointer into a block realloc has released is
\* dangling: the read yields what is left there, what the allocator put there
\* since, or the access faults
Deref(binding) ==
    IF heap[binding.blk].live
    THEN {[fault |-> FALSE, rec |-> heap[binding.blk].recs[binding.idx]]}
    ELSE {[fault |-> FALSE, rec |-> r] : r \in AllRecords} \cup {[fault |-> TRUE]}

\* lines 48-57 once *binding has been read
Operate(read, ctlVal) ==
    IF read.fault
    THEN [result |-> Crashed, calls |-> <<>>, out |-> <<>>]
    ELSE [result |-> CONTROL_RESULT_OK,
          calls |-> (IF read.rec.stValAttr # NULL
                     THEN <<UpdateCall(read.rec.stValAttr, ctlVal)>> ELSE <<>>)
                    \o (IF read.rec.tAttr # NULL
                        THEN <<UtcCall(read.rec.tAttr)>> ELSE <<>>),
          out |-> <<Line("CONTROL_UPDATE", read.rec.reference, <<>>, 0)>>]

\* a handler that does not look at the test flag
generic_control_handler_NoTest(action, parameter, ctlVal, test) ==
    IF parameter = NullBinding
    THEN {[result |-> CONTROL_RESULT_FAILED, calls |-> <<>>, out |-> <<>>]}
    ELSE IF ControlAction_isSelect(action)
    THEN {[result |-> CONTROL_RESULT_OK, calls |-> <<>>, out |-> <<>>]}
    ELSE {Operate(read, ctlVal) : read \in Deref(parameter)}

\* a handler that treats a select like an operate
generic_control_handler_NoSelect(action, parameter, ctlVal, test) ==
    IF parameter = NullBinding
    THEN {[result |-> CONTROL_RESULT_FAILED, calls |-> <<>>, out |-> <<>>]}
    ELSE IF test
    THEN {[result |-> CONTROL_RESULT_OK, calls |-> <<>>, out |-> <<>>]}
    ELSE {Operate(read, ctlVal) : read \in Deref(parameter)}

\* a handler that reports a missing binding as success
generic_control_handler_NullOk(action, parameter, ctlVal, test) ==
    IF parameter = NullBinding \/ test \/ ControlAction_isSelect(action)
    THEN {[result |-> CONTROL_RESULT_OK, calls |-> <<>>, out |-> <<>>]}
    ELSE {Operate(read, ctlVal) : read \in Deref(parameter)}

\* lines 34-58: the outcomes of generic_control_handler
generic_control_handler(action, parameter, ctlVal, test) ==
    IF parameter = NullBinding
    THEN {[result |-> CONTROL_RESULT_FAILED, calls |-> <<>>, out |-> <<>>]}
    ELSE IF test
    THEN {[result |-> CONTROL_RESULT_OK, calls |-> <<>>, out |-> <<>>]}
    ELSE IF ControlAction_isSelect(action)
    THEN {[result |-> CONTROL_RESULT_OK, calls |-> <<>>, out |-> <<>>]}
    ELSE {Operate(read, ctlVal) : read \in Deref(parameter)}

\* the (control object, parameter) pairs the server may call a handler with:
\* what register_control_binding installed, and a bare call without a binding
CheckTargets ==
    {[d |-> n, parameter |-> handlers[n].check] : n \in DOMAIN handlers}
        \cup {[d |-> NULL, parameter |-> NullBinding]}

ControlTargets ==
    {[d |-> n, parameter |-> handlers[n].control] : n \in DOMAIN handlers}
        \cup {[d |-> NULL, parameter |-> NullBinding]}

\* the server's request context runs the check handler for a control request
PerformCheck ==
    /\ server = "running"
    /\ main_pc # "crashed"
    /\ nCtl < MaxCtl
    /\ \E tg \in CheckTargets, action \in ControlActions, ctlVal \in CtlVals,
          test \in BOOLEAN, interlockCheck \in BOOLEAN :
         last' = Did("perform_check_handler",
                     [d |-> tg.d, parameter |-> tg.parameter, action |-> action,
                      ctlVal |-> ctlVal, test |-> test, interlockCheck |-> interlockCheck],
                     <<>>, <<>>,
                     perform_check_handler(action, tg.parameter, ctlVal, test,
                                           interlockCheck))
    /\ nCtl' = nCtl + 1
    /\ UNCHANGED <<mdl, running, gIedServer, server, gBindings, gBindingCount, heap,
                   handlers, attrs, main_pc, exitCode, ldIndex, stack, visited,
                   registered, growFailedAt, rd_pc, nLines>>

\* the server's request context runs the control handler for a control request
Control ==
    /\ server = "running"
    /\ main_pc # "crashed"
    /\ nCtl < MaxCtl
    /\ \E tg \in ControlTargets, action \in ControlActions, ctlVal \in CtlVals,
          test \in BOOLEAN :
         \E res \in generic_control_handler(action, tg.parameter, ctlVal, test) :
            /\ last' = Did("generic_control_handler",
                           [d |-> tg.d, parameter |-> tg.parameter, action |-> action,
                            ctlVal |-> ctlVal, test |-> test],
                           res.calls, res.out, res.result)
            /\ attrs' = ApplyCalls(attrs, res.calls)
            /\ IF res.result = Crashed
               THEN main_pc' = "crashed" /\ rd_pc' = "killed"
               ELSE UNCHANGED <<main_pc, rd_pc>>
    /\ nCtl' = nCtl + 1
    /\ UNCHANGED <<mdl, running, gIedServer, server, gBindings, gBindingCount, heap,
                   handlers, exitCode, ldIndex, stack, visited, registered,
                   growFailedAt, nLines>>

-----------------------------------------------------------------------------
(* main (lines 237-287) and sigint_handler (lines 230-235).                *)

\* a main that starts the ingest thread before the registration pass
MainCreate_StartsThread ==
    /\ main_pc = "create"
    /\ \/ /\ gIedServer' = 1
          /\ server' = "created"
          /\ main_pc' = "register"
          /\ exitCode' = exitCode
          /\ rd_pc' = "loop"
          /\ last' = Did("IedServer_create", NoInput, <<>>, <<>>, "created")
       \/ /\ gIedServer' = NULL
          /\ server' = server
          /\ main_pc' = "exited"
          /\ exitCode' = 1
          /\ rd_pc' = rd_pc
          /\ last' = Did("IedServer_create", NoInput, <<>>, <<>>, "NULL")
    /\ UNCHANGED <<mdl, running, gBindings, gBindingCount, heap, handlers, attrs,
                   ldIndex, stack, visited, registered, growFailedAt, nLines,
                   nCtl>>

\* lines 250-256: IedServer_create returns the server or NULL
MainCreate ==
    /\ main_pc = "create"
    /\ \/ /\ gIedServer' = 1
          /\ server' = "created"
          /\ main_pc' = "register"
          /\ exitCode' = exitCode
          /\ last' = Did("IedServer_create", NoInput, <<>>, <<>>, "created")
       \/ /\ gIedServer' = NULL
          /\ server' = server
          /\ main_pc' = "exited"
          /\ exitCode' = 1
          /\ last' = Did("IedServer_create", NoInput, <<>>, <<>>, "NULL")
    /\ UNCHANGED <<mdl, running, gBindings, gBindingCount, heap, handlers, attrs,
                   ldIndex, stack, visited, registered, growFailedAt, rd_pc, nLines,
                   nCtl>>

\* lines 261-262: the ingest thread is created and started
MainThreadStart ==
    /\ main_pc = "thread"
    /\ main_pc' = "start"
    /\ rd_pc' = "loop"
    /\ last' = Did("Thread_start", NoInput, <<>>, <<>>, "")
    /\ UNCHANGED <<mdl, running, gIedServer, server, gBindings, gBindingCount, heap,
                   handlers, attrs, exitCode, ldIndex, stack, visited, registered,
                   growFailedAt, nLines, nCtl>>

\* lines 264-273: the server starts listening, or fails to and is destroyed
MainServerStart ==
    /\ main_pc = "start"
    /\ \/ /\ server' = "running"
          /\ main_pc' = "wait"
          /\ last' = Did("IedServer_start", NoInput, <<>>,
                         <<Line("IEC 61850 server started on port", <<>>, <<>>, 0)>>,
                         "running")
       \/ /\ server' = "destroyed"
          /\ main_pc' = "return2"
          /\ last' = Did("IedServer_start", NoInput, <<>>, <<>>, "failed")
    /\ UNCHANGED <<mdl, running, gIedServer, gBindings, gBindingCount, heap, handlers,
                   attrs, exitCode, ldIndex, stack, visited, registered, growFailedAt,
                   rd_pc, nLines, nCtl>>

\* line 269: return 2 ends the process and the ingest thread with it
MainReturn2 ==
    /\ main_pc = "return2"
    /\ main_pc' = "exited"
    /\ exitCode' = 2
    /\ rd_pc' = "killed"
    /\ last' = Did("return", NoInput, <<>>, <<>>, "2")
    /\ UNCHANGED <<mdl, running, gIedServer, server, gBindings, gBindingCount, heap,
                   handlers, attrs, ldIndex, stack, visited, registered, growFailedAt,
                   nLines, nCtl>>

\* a wait loop with its condition inverted
MainStop_Inverted ==
    /\ main_pc = "wait"
    /\ running # 0
    /\ server' = "stopped"
    /\ main_pc' = "destroy"
    /\ last' = Did("IedServer_stop", NoInput, <<>>, <<>>, "")
    /\ UNCHANGED <<mdl, running, gIedServer, gBindings, gBindingCount, heap, handlers,
                   attrs, exitCode, ldIndex, stack, visited, registered, growFailedAt,
                   rd_pc, nLines, nCtl>>

\* lines 275-279: the wait loop sees running cleared and the server is stopped
MainStop ==
    /\ main_pc = "wait"
    /\ running = 0
    /\ server' = "stopped"
    /\ main_pc' = "destroy"
    /\ last' = Did("IedServer_stop", NoInput, <<>>, <<>>, "")
    /\ UNCHANGED <<mdl, running, gIedServer, gBindings, gBindingCount, heap, handlers,
                   attrs, exitCode, ldIndex, stack, visited, registered, growFailedAt,
                   rd_pc, nLines, nCtl>>

\* line 280
MainDestroy ==
    /\ main_pc = "destroy"
    /\ server' = "destroyed"
    /\ main_pc' = "join"
    /\ last' = Did("IedServer_destroy", NoInput, <<>>, <<>>, "")
    /\ UNCHANGED <<mdl, running, gIedServer, gBindings, gBindingCount, heap, handlers,
                   attrs, exitCode, ldIndex, stack, visited, registered, growFailedAt,
                   rd_pc, nLines, nCtl>>

\* line 281: Thread_destroy joins the ingest thread, so it returns only once
\* stdin_reader_thread has returned
MainJoin ==
    /\ main_pc = "join"
    /\ rd_pc = "done"
    /\ main_pc' = "free"
    /\ last' = Did("Thread_destroy", NoInput, <<>>, <<>>, "")
    /\ UNCHANGED <<mdl, running, gIedServer, server, gBindings, gBindingCount, heap,
                   handlers, attrs, exitCode, ldIndex, stack, visited, registered,
                   growFailedAt, rd_pc, nLines, nCtl>>

\* lines 283-286: the binding collection is released and main returns 0
MainFree ==
    /\ main_pc = "free"
    /\ heap' = IF gBindings # NULL THEN [heap EXCEPT ![gBindings].live = FALSE] ELSE heap
    /\ main_pc' = "exited"
    /\ exitCode' = 0
    /\ last' = Did("return", NoInput, <<>>, <<>>, "0")
    /\ UNCHANGED <<mdl, running, gIedServer, server, gBindings, gBindingCount, handlers,
                   attrs, ldIndex, stack, visited, registered, growFailedAt, rd_pc,
                   nLines, nCtl>>

\* lines 230-235: SIGINT arrives while the process lives
Sigint ==
    /\ main_pc \notin {"exited", "crashed"}
    /\ running' = 0
    /\ last' = Did("sigint_handler", NoInput, <<>>, <<>>, "")
    /\ UNCHANGED <<mdl, gIedServer, server, gBindings, gBindingCount, heap, handlers,
                   attrs, main_pc, exitCode, ldIndex, stack, visited, registered,
                   growFailedAt, rd_pc, nLines, nCtl>>

-----------------------------------------------------------------------------
(* The C library text functions the bridge uses.                           *)

UpperCase == <<"A", "B", "C", "D", "E", "F", "G", "H", "I", "J", "K", "L", "M",
               "N", "O", "P", "Q", "R", "S", "T", "U", "V", "W", "X", "Y", "Z">>
LowerCase == <<"a", "b", "c", "d", "e", "f", "g", "h", "i", "j", "k", "l", "m",
               "n", "o", "p", "q", "r", "s", "t", "u", "v", "w", "x", "y", "z">>
Digits == <<"0", "1", "2", "3", "4", "5", "6", "7", "8", "9">>

tolower(c) ==
    LET i == strchr(UpperCase, c) IN IF i = 0 THEN c ELSE LowerCase[i]

isdigit(c) == strchr(Digits, c) # 0

DigitValue(c) == strchr(Digits, c) - 1

isspace(c) == c \in {" ", "\t", "\n", "\r"}

\* strcasecmp(a, b) == 0
RECURSIVE strcasecmp_eq(_, _)
strcasecmp_eq(a, b) ==
    IF a = <<>> \/ b = <<>> THEN a = b
    ELSE tolower(Head(a)) = tolower(Head(b)) /\ strcasecmp_eq(Tail(a), Tail(b))

\* strcspn(s, "\r\n"): length of the prefix free of line terminators
RECURSIVE strcspn_crlf(_)
strcspn_crlf(s) ==
    IF s = <<>> \/ Head(s) \in {"\r", "\n"} THEN 0 ELSE 1 + strcspn_crlf(Tail(s))

RECURSIVE SkipSpace(_)
SkipSpace(s) == IF s # <<>> /\ isspace(Head(s)) THEN SkipSpace(Tail(s)) ELSE s

\* the leading run of decimal digits of s
RECURSIVE DigitRun(_)
DigitRun(s) ==
    IF s # <<>> /\ isdigit(Head(s)) THEN <<Head(s)>> \o DigitRun(Tail(s)) ELSE <<>>

\* the number a run of digits denotes, continuing from acc
RECURSIVE DigitsValue(_, _)
DigitsValue(ds, acc) ==
    IF ds = <<>> THEN acc ELSE DigitsValue(Tail(ds), 10 * acc + DigitValue(Head(ds)))

\* the number a run of digits denotes modulo 2^32, continuing from the 16-bit
\* halves <<hi, lo>>
RECURSIVE DigitsWrap(_, _)
DigitsWrap(ds, acc) ==
    IF ds = <<>> THEN acc
    ELSE LET lo == 10 * acc[2] + DigitValue(Head(ds))
             hi == 10 * acc[1] + (lo \div 65536)
         IN DigitsWrap(Tail(ds), <<hi % 65536, lo % 65536>>)

\* the 16-bit halves <<hi, lo>> read as a 32-bit two's complement int
Int32(w) == IF w[1] >= 32768 THEN (w[1] - 65536) * 65536 + w[2] ELSE w[1] * 65536 + w[2]

\* -v in 32-bit two's complement
Neg32(v) == IF v = (-2147483647) - 1 THEN v ELSE -v

\* the sign an optional leading '+' or '-' gives, and the text after it
SignOf(s) == IF s # <<>> /\ Head(s) = "-" THEN -1 ELSE 1
AfterSign(s) == IF s # <<>> /\ Head(s) \in {"+", "-"} THEN Tail(s) ELSE s

\* atoi(s): white space, an optional sign, then digits up to the first other
\* character; no digits give 0.  The result is held in an int: a number that
\* does not fit wraps
atoi(s) ==
    LET body == SkipSpace(s)
        mag == Int32(DigitsWrap(DigitRun(AfterSign(body)), <<0, 0>>))
    IN IF SignOf(body) = -1 THEN Neg32(mag) ELSE mag

\* num / 10^scale without trailing zeros in the fraction
RECURSIVE Decimal(_, _)
Decimal(num, scale) ==
    IF scale > 0 /\ num % 10 = 0 THEN Decimal(num \div 10, scale - 1)
    ELSE MmsFloat(num, scale)

\* strtof(s, NULL) on decimal text: white space, an optional sign, digits, an
\* optional '.' and more digits; text that starts no number gives 0.0.  The
\* value is kept exact (rounding to binary32 is not modelled)
strtof(s) ==
    LET body == SkipSpace(s)
        rest == AfterSign(body)
        whole == DigitRun(rest)
        tail == SubSeq(rest, Len(whole) + 1, Len(rest))
        frac == IF tail # <<>> /\ Head(tail) = "." THEN DigitRun(Tail(tail)) ELSE <<>>
    IN IF whole = <<>> /\ frac = <<>> THEN MmsFloat(0, 0)
       ELSE LET mag == DigitsValue(frac, DigitsValue(whole, 0))
            IN IF mag = 0 THEN MmsFloat(0, 0)
               ELSE Decimal(SignOf(body) * mag, Len(frac))

-----------------------------------------------------------------------------
(* Bridge: handle_bridge_update (lines 139-203).                           *)

\* size of buf in handle_bridge_update
BufSize == 256

\* a type inference that compares the text with "true" and "false" by strcmp
InferValue_CaseSensitive(valStr) ==
    IF valStr = <<"t", "r", "u", "e">> \/ valStr = <<"f", "a", "l", "s", "e">>
    THEN MmsBoolean(valStr = <<"t", "r", "u", "e">>)
    ELSE IF strchr(valStr, ".") # 0
    THEN strtof(valStr)
    ELSE MmsInt32(atoi(valStr))

\* lines 175-183: the value built from the raw text
InferValue(valStr) ==
    IF strcasecmp_eq(valStr, <<"t", "r", "u", "e">>)
       \/ strcasecmp_eq(valStr, <<"f", "a", "l", "s", "e">>)
    THEN MmsBoolean(strcasecmp_eq(valStr, <<"t", "r", "u", "e">>))
    ELSE IF strchr(valStr, ".") # 0
    THEN strtof(valStr)
    ELSE MmsInt32(atoi(valStr))

\* lines 144-150: direct resolution, and only when that finds no node the
\* reference with ".stVal" appended
ResolveAttr(ref) ==
    LET attr == IedModel_getModelNodeByObjectReference(ref)
    IN IF attr = NULL
       THEN IedModel_getModelNodeByObjectReference(Strncpy(ref \o DotStVal, BufSize - 1))
       ELSE attr

\* an update that leaves the time stamp of the data object alone
UpdateCalls_NoStamp(attr, newVal) == <<UpdateCall(attr, newVal)>>

\* lines 186-195: the server API calls of an update
UpdateCalls(attr, newVal) ==
    LET parent == ModelNode_getParent(attr)
        tNode == IF parent = NULL THEN NULL ELSE ModelNode_getChild(parent, tName)
    IN <<UpdateCall(attr, newVal)>>
           \o (IF tNode # NULL THEN <<UtcCall(tNode)>> ELSE <<>>)

\* a bridge that reports an unknown path also while the process shuts down
handle_bridge_update_AlwaysReports(ref, valStr) ==
    IF gIedServer = NULL
    THEN {[result |-> "no server", calls |-> <<>>, out |-> <<>>]}
    ELSE LET attr == ResolveAttr(ref)
         IN IF attr = NULL \/ ModelNode_getType(attr) # DataAttributeModelType
            THEN {[result |-> "rejected", calls |-> <<>>,
                   out |-> <<Line("BRIDGE_ERR: Node not found or not attribute:",
                                  ref, <<>>, 0)>>]}
            ELSE {[result |-> "no value", calls |-> <<>>, out |-> <<>>]}
                 \cup {[result |-> "updated",
                        calls |-> UpdateCalls(attr, InferValue(valStr)),
                        out |-> IF running # 0
                                THEN <<Line("BRIDGE_OK: Updated", ref, valStr, 0)>>
                                ELSE <<>>]}
                 \cup (IF server = "destroyed"
                       THEN {[result |-> Crashed,
                              calls |-> <<UpdateCall(attr, InferValue(valStr))>>,
                              out |-> <<>>]}
                       ELSE {})

\* lines 139-203: the outcomes of handle_bridge_update(ref, valStr).  Calling
\* the update API on a server that IedServer_destroy has released is a use
\* after free: the call works on what is left of the server, or faults
handle_bridge_update(ref, valStr) ==
    IF gIedServer = NULL
    THEN {[result |-> "no server", calls |-> <<>>, out |-> <<>>]}
    ELSE LET attr == ResolveAttr(ref)
         IN IF attr = NULL \/ ModelNode_getType(attr) # DataAttributeModelType
            THEN {[result |-> "rejected", calls |-> <<>>,
                   out |-> IF running # 0
                           THEN <<Line("BRIDGE_ERR: Node not found or not attribute:",
                                       ref, <<>>, 0)>>
                           ELSE <<>>]}
            ELSE \* line 185: the MmsValue could not be allocated
                 {[result |-> "no value", calls |-> <<>>, out |-> <<>>]}
                 \cup {[result |-> "updated",
                        calls |-> UpdateCalls(attr, InferValue(valStr)),
                        out |-> IF running # 0
                                THEN <<Line("BRIDGE_OK: Updated", ref, valStr, 0)>>
                                ELSE <<>>]}
                 \cup (IF server = "destroyed"
                       THEN {[result |-> Crashed,
                              calls |-> <<UpdateCall(attr, InferValue(valStr))>>,
                              out |-> <<>>]}
                       ELSE {})

-----------------------------------------------------------------------------
(* Bridge Ingest Loop: stdin_reader_thread (lines 205-226).                *)

NL == <<"\n">>
CRLF == <<"\r", "\n">>
Eq == <<"=">>

RefM == <<"D", "/", "L", ".", "M">>
RefP == <<"D", "/", "L", ".", "P">>
RefS == <<"D", "/", "L", ".", "M", ".", "S">>
RefE == <<"E", "/", "L", ".", "M">>
RefUnknown == <<"X", "/", "Y">>

\* the lines the external process may send
Lines ==
    { RefM \o DotStVal \o Eq \o <<"t", "r", "u", "e">> \o NL,
      RefM \o Eq \o <<"1">> \o NL,
      RefUnknown \o Eq \o <<"5">> \o CRLF,
      NL,
      RefM \o DotStVal \o NL,
      RefP \o DotStVal \o Eq \o <<"F", "A", "L", "S", "E">> \o NL,
      RefS \o Eq \o <<"3", ".", "1", "4">> \o NL,
      RefS \o DotStVal \o Eq \o <<"a", "b", "c">>,
      RefE \o DotStVal \o Eq \o <<"4", "2">> \o NL,
      RefM \o <<".">> \o tName \o Eq \o <<"7">> \o NL }

\* a loop that tests only what fgets returns
ReaderCheck_IgnoresRunning ==
    /\ rd_pc = "loop"
    /\ rd_pc' = "fgets"
    /\ last' = Did("while", NoInput, <<>>, <<>>, "")
    /\ UNCHANGED <<mdl, running, gIedServer, server, gBindings, gBindingCount, heap,
                   handlers, attrs, main_pc, exitCode, ldIndex, stack, visited,
                   registered, growFailedAt, nLines, nCtl>>

\* line 210, left operand: the loop goes on only while running is set
ReaderCheck ==
    /\ rd_pc = "loop"
    /\ rd_pc' = IF running # 0 THEN "fgets" ELSE "done"
    /\ last' = Did("while", NoInput, <<>>, <<>>, "")
    /\ UNCHANGED <<mdl, running, gIedServer, server, gBindings, gBindingCount, heap,
                   handlers, attrs, main_pc, exitCode, ldIndex, stack, visited,
                   registered, growFailedAt, nLines, nCtl>>

\* line 210, right operand: fgets returns NULL at end of input
ReaderEof ==
    /\ rd_pc = "fgets"
    /\ rd_pc' = "done"
    /\ last' = Did("fgets", NoInput, <<>>, <<>>, "NULL")
    /\ UNCHANGED <<mdl, running, gIedServer, server, gBindings, gBindingCount, heap,
                   handlers, attrs, main_pc, exitCode, ldIndex, stack, visited,
                   registered, growFailedAt, nLines, nCtl>>

\* lines 212-221: the line without its terminator, and its two sides when it
\* holds a '='
Trimmed(text) == SubSeq(text, 1, strcspn_crlf(text))
RefOf(line) == SubSeq(line, 1, strchr(line, "=") - 1)
ValOf(line) == SubSeq(line, strchr(line, "=") + 1, Len(line))

\* a loop body that hands a line without '=' to the bridge as a path with an
\* empty value
ProcessLine_NoSeparatorCheck(text) ==
    LET line == Trimmed(text)
    IN IF Len(line) = 0
       THEN {[result |-> "empty", calls |-> <<>>, out |-> <<>>]}
       ELSE IF strchr(line, "=") = 0
       THEN handle_bridge_update(line, <<>>)
       ELSE handle_bridge_update(RefOf(line), ValOf(line))

\* lines 212-223 for the text fgets returned: the outcomes of one iteration
ProcessLine(text) ==
    LET line == Trimmed(text)
    IN IF Len(line) = 0
       THEN {[result |-> "empty", calls |-> <<>>, out |-> <<>>]}
       ELSE IF strchr(line, "=") = 0
       THEN {[result |-> "no separator", calls |-> <<>>, out |-> <<>>]}
       ELSE handle_bridge_update(RefOf(line), ValOf(line))

\* lines 210-223: fgets returns one of `texts` and the loop body handles it
ReadFrom(texts) ==
    /\ rd_pc = "fgets"
    /\ nLines < MaxLines
    /\ \E text \in texts :
         \E res \in ProcessLine(text) :
            /\ last' = Did("line", [text |-> text], res.calls, res.out, res.result)
            /\ attrs' = ApplyCalls(attrs, res.calls)
            /\ IF res.result = Crashed
               THEN main_pc' = "crashed" /\ rd_pc' = "killed"
               ELSE main_pc' = main_pc /\ rd_pc' = "loop"
    /\ nLines' = nLines + 1
    /\ UNCHANGED <<mdl, running, gIedServer, server, gBindings, gBindingCount, heap,
                   handlers, exitCode, ldIndex, stack, visited, registered,
                   growFailedAt, nCtl>>

ReaderLine == ReadFrom(Lines)

-----------------------------------------------------------------------------
(* The program.                                                            *)

Next ==
    \/ MainCreate
    \/ RegisterDevice
    \/ TraverseChild
    \/ RegisterSummary
    \/ MainThreadStart
    \/ MainServerStart
    \/ MainReturn2
    \/ MainStop
    \/ MainDestroy
    \/ MainJoin
    \/ MainFree
    \/ Sigint
    \/ PerformCheck
    \/ Control
    \/ ReaderCheck
    \/ ReaderEof
    \/ ReaderLine

Spec == Init /\ [][Next]_vars

-----------------------------------------------------------------------------
(* Vocabulary of the properties.                                           *)

Range(f) == {f[i] : i \in DOMAIN f}

\* the registration pass has run to its end and the collection is not yet released
RegistryBuilt ==
    main_pc \in {"thread", "start", "return2", "wait", "destroy", "join", "free"}

\* a data object with a sub-element named Oper and an attribute named stVal
Controllable(n) ==
    /\ iedModel[n].kind = DataObjectModelType
    /\ \E c \in Range(Children(n)) : iedModel[c].name = Oper
    /\ \E c \in Range(Children(n)) :
          iedModel[c].name = stVal /\ iedModel[c].kind = DataAttributeModelType

\* the records of the binding collection: gBindings[0 .. gBindingCount-1]
Bindings ==
    IF gBindings = NULL THEN <<>> ELSE SubSeq(heap[gBindings].recs, 1, gBindingCount)

HasBinding(n) == \E i \in DOMAIN Bindings : Bindings[i].controlDo = n

\* the place of node n in the order of the walk, 0 while it has not been reached
VisitIndex(n) ==
    IF n \in Range(visited) THEN CHOOSE i \in DOMAIN visited : visited[i] = n ELSE 0

\* pre-order of the subtree of n, children in stored order
RECURSIVE PreOrder(_)
RECURSIVE PreOrderAll(_)
PreOrder(n) == <<n>> \o PreOrderAll(Children(n))
PreOrderAll(ns) == IF ns = <<>> THEN <<>> ELSE PreOrder(Head(ns)) \o PreOrderAll(Tail(ns))

IsDataObject(n) == iedModel[n].kind = DataObjectModelType

IsPrefix(a, b) == Len(a) <= Len(b) /\ a = SubSeq(b, 1, Len(a))

\* the step just taken ran generic_control_handler / perform_check_handler /
\* one iteration of the ingest loop
ControlStep == last'.op = "generic_control_handler"
CheckStep == last'.op = "perform_check_handler"

-----------------------------------------------------------------------------
(* C1.  As claimed: once register_all_control_handlers has completed,      *)
(* gBindingCount is the number of data objects that have both an Oper      *)
(* sub-element and a stVal attribute, and a data object has a binding if   *)
(* and only if it has both.  This fails when a realloc returns NULL: the   *)
(* count restarts from zero and the earlier records are dropped.           *)
C1_AsClaimed ==
    RegistryBuilt =>
        /\ gBindingCount = Cardinality({n \in Nodes : Controllable(n)})
        /\ \A n \in Nodes : HasBinding(n) <=> Controllable(n)

(* C1, amended.  Once register_all_control_handlers has completed,         *)
(* gBindingCount is the number of data objects with both an Oper and a     *)
(* stVal that the walk reached after the last failed growth of the         *)
(* collection (all of them when no growth failed), and a data object has a *)
(* binding if and only if it is one of those.                              *)
C1_CountSinceLastFailure ==
    RegistryBuilt =>
        /\ gBindingCount =
              Cardinality({n \in Nodes : Controllable(n) /\ VisitIndex(n) > growFailedAt})
        /\ \A n \in Nodes :
              HasBinding(n) <=> (Controllable(n) /\ VisitIndex(n) > growFailedAt)

\* the pass is over; an earlier growth failed, a later one succeeded
C1_Witness ==
    /\ RegistryBuilt
    /\ growFailedAt > 0
    /\ gBindingCount = 1
    /\ \E n \in Nodes : Controllable(n) /\ ~HasBinding(n)
    /\ \E n \in Nodes : IsDataObject(n) /\ ~Controllable(n)

-----------------------------------------------------------------------------
(* C2.  The walk enters the nodes in pre-order, children in stored order:  *)
(* what it has entered is always a prefix of the pre-order of the logical  *)
(* devices' trees, and at the end it is all of it, every node exactly      *)
(* once; register_control_binding has been called for exactly the data     *)
(* objects entered, once each and in that order.                           *)
C2_PreOrderOnce ==
    /\ IsPrefix(visited, PreOrderAll(Devices))
    /\ registered = SelectSeq(visited, IsDataObject)
    /\ RegistryBuilt =>
          /\ visited = PreOrderAll(Devices)
          /\ \A n \in Nodes : Cardinality({i \in DOMAIN visited : visited[i] = n}) = 1
          /\ \A n \in Nodes :
                Cardinality({i \in DOMAIN registered : registered[i] = n})
                    = IF IsDataObject(n) THEN 1 ELSE 0

\* the walk of the two-device model is over: siblings, a second device and
\* childless data objects have all been passed
C2_Witness ==
    /\ RegistryBuilt
    /\ Len(Devices) = 2
    /\ Len(visited) = Len(iedModel)
    /\ Len(registered) = 4

-----------------------------------------------------------------------------
(* C3.  A call of generic_control_handler with test set and a binding      *)
(* returns CONTROL_RESULT_OK whatever the action and the candidate value,  *)
(* makes no call of the server update API, leaves every attribute as it    *)
(* was and prints nothing.                                                 *)
C3_TestIsDryRun ==
    [][(ControlStep /\ last'.input.test /\ last'.input.parameter # NullBinding) =>
          /\ last'.result = CONTROL_RESULT_OK
          /\ last'.calls = <<>>
          /\ last'.out = <<>>
          /\ attrs' = attrs]_vars

\* a test operate (not a select) on a registered control point
C3_Witness ==
    /\ last.op = "generic_control_handler"
    /\ last.input.test
    /\ last.input.action = "operate"
    /\ last.input.d # NULL
    /\ last.result = CONTROL_RESULT_OK

-----------------------------------------------------------------------------
(* C4.  As claimed: a call of generic_control_handler whose action is a    *)
(* select changes no attribute and returns CONTROL_RESULT_OK.  This fails  *)
(* for a select without a binding, which returns CONTROL_RESULT_FAILED.    *)
C4_AsClaimed ==
    [][(ControlStep /\ ControlAction_isSelect(last'.input.action)) =>
          /\ last'.result = CONTROL_RESULT_OK
          /\ attrs' = attrs]_vars

(* C4, amended.  A call of generic_control_handler whose action is a       *)
(* select changes no attribute and makes no update call; it returns        *)
(* CONTROL_RESULT_OK when it is given a binding and CONTROL_RESULT_FAILED  *)
(* when the binding is null.                                               *)
C4_SelectNeverMutates ==
    [][(ControlStep /\ ControlAction_isSelect(last'.input.action)) =>
          /\ last'.calls = <<>>
          /\ attrs' = attrs
          /\ last'.result = IF last'.input.parameter = NullBinding
                            THEN CONTROL_RESULT_FAILED
                            ELSE CONTROL_RESULT_OK]_vars

\* a select that is not a test, on a registered control point
C4_Witness ==
    /\ last.op = "generic_control_handler"
    /\ last.input.action = "select"
    /\ ~last.input.test
    /\ last.input.d # NULL
    /\ last.result = CONTROL_RESULT_OK

-----------------------------------------------------------------------------
(* C5.  An operate request that is neither a test nor a select, on a       *)
(* registered control point, writes the candidate value to the stVal of    *)
(* that control point, stamps its t when it has one, prints exactly one    *)
(* CONTROL_UPDATE line with the reference of that control point and        *)
(* returns CONTROL_RESULT_OK.  The code does not keep this: the parameter  *)
(* installed for a control point may point into a block that a later       *)
(* realloc has released.                                                   *)
C5_OperateUpdatesOwnPoint ==
    [][(/\ ControlStep
        /\ ~last'.input.test
        /\ ~ControlAction_isSelect(last'.input.action)
        /\ last'.input.d # NULL) =>
          LET d == last'.input.d
              st == CHOOSE c \in Range(Children(d)) : iedModel[c].name = stVal
              ts == {c \in Range(Children(d)) : iedModel[c].name = tName}
          IN /\ last'.result = CONTROL_RESULT_OK
             /\ last'.calls = <<UpdateCall(st, last'.input.ctlVal)>>
                                 \o (IF ts = {} THEN <<>>
                                     ELSE <<UtcCall(CHOOSE c \in ts : TRUE)>>)
             /\ ValueIn(attrs', st) = last'.input.ctlVal
             /\ \A c \in ts : ValueIn(attrs', c) = UtcNow
             /\ last'.out = <<Line("CONTROL_UPDATE", ModelNode_getObjectReference(d), <<>>, 0)>>]_vars

-----------------------------------------------------------------------------
(* C6.  generic_control_handler returns CONTROL_RESULT_FAILED if and only  *)
(* if the binding it is given is null, and such a call makes no update     *)
(* call, prints nothing and leaves every attribute as it was.              *)
C6_FailedIffNoBinding ==
    [][ControlStep =>
          /\ (last'.result = CONTROL_RESULT_FAILED) <=> (last'.input.parameter = NullBinding)
          /\ last'.input.parameter = NullBinding =>
                /\ last'.calls = <<>>
                /\ last'.out = <<>>
                /\ attrs' = attrs]_vars

\* an operate without a binding, neither test nor select, after a bridge
\* update has given a registered status attribute a value
C6_Witness ==
    /\ last.op = "generic_control_handler"
    /\ last.input.parameter = NullBinding
    /\ last.input.action = "operate"
    /\ ~last.input.test
    /\ last.result = CONTROL_RESULT_FAILED
    /\ \E i \in DOMAIN Bindings : ValueIn(attrs, Bindings[i].stValAttr) # Unset

-----------------------------------------------------------------------------
(* C7.  perform_check_handler returns CONTROL_ACCEPTED for every action,   *)
(* binding (null included), candidate value, test flag and interlock-check *)
(* flag, and the call changes nothing: no attribute, no binding, no        *)
(* handler, not the running flag.                                          *)
C7_CheckAlwaysAccepts ==
    [][CheckStep =>
          /\ last'.result = CONTROL_ACCEPTED
          /\ last'.calls = <<>>
          /\ last'.out = <<>>
          /\ UNCHANGED <<attrs, heap, handlers, gBindings, gBindingCount, running,
                         gIedServer, server>>]_vars

\* a check without a binding, asking for the interlock check, in test mode
C7_Witness ==
    /\ last.op = "perform_check_handler"
    /\ last.input.parameter = NullBinding
    /\ last.input.interlockCheck
    /\ last.input.test
    /\ last.input.action = "select"
    /\ last.result = CONTROL_ACCEPTED

-----------------------------------------------------------------------------
(* The bridge on its own: the server is up, the registration pass went     *)
(* through without a failed or moving realloc, and the ingest thread reads *)
(* lines that pair every status attribute with every kind of value text.   *)

RefQ == <<"D", "/", "L", ".", "Q">>

StatusRefs == {RefM \o DotStVal, RefP \o DotStVal, RefQ \o DotStVal, RefS \o DotStVal}

TextTrue == <<"t", "r", "u", "e">>
TextFalse == <<"f", "a", "l", "s", "e">>
TextPi == <<"3", ".", "1", "4">>
Text42 == <<"4", "2">>
TextAbc == <<"a", "b", "c">>

ValueTexts ==
    { TextTrue, TextFalse, TextPi, Text42, TextAbc,
      <<"T", "R", "U", "E">>, <<"F", "A", "L", "S", "E">>, <<"T", "r", "u", "e">>,
      <<"f", "a", "L", "s", "E">>,
      <<"t", "r", "u">>, <<"t", "r", "u", "e", "e">>, <<"f", "a", "l", "s", "e", ".">>,
      <<"y", "e", "s">>, <<"1">>, <<"0">>, <<>>,
      <<"-", "7">>, <<"+", "5">>, <<" ", "9">>, <<"1", "2", "a", "b">>, <<"-">>,
      <<"2", "1", "4", "7", "4", "8", "3", "6", "4", "7">>,
      <<"2", "1", "4", "7", "4", "8", "3", "6", "4", "8">>,
      <<"4", "2", "9", "4", "9", "6", "7", "2", "9", "7">>,
      <<"-", "2", ".", "5", "0">>, <<"1", ".">>, <<".">>, <<".", "5">>,
      <<"a", ".", "b">>, <<"1", ".", "2", ".", "3">>, <<"0", ".", "0">>,
      <<"1", "=", "2">> }

WideLines == {ref \o Eq \o val \o NL : ref \in StatusRefs, val \in ValueTexts}

\* the data objects register_control_binding accepts, in the order of the walk
RegistrableInOrder ==
    LET accepted(n) == IsDataObject(n) /\ Registrable(n)
    IN SelectSeq(PreOrderAll(Devices), accepted)

InitBridge ==
    /\ mdl \in 1..Len(Models)
    /\ running = 1
    /\ gIedServer = 1
    /\ server = "running"
    /\ gBindings = 1
    /\ gBindingCount = Len(RegistrableInOrder)
    /\ heap = <<[live |-> TRUE,
                 recs |-> [i \in DOMAIN RegistrableInOrder |->
                              NewBinding(RegistrableInOrder[i])]]>>
    /\ handlers = [n \in Range(RegistrableInOrder) |->
                      LET i == CHOOSE j \in DOMAIN RegistrableInOrder :
                                   RegistrableInOrder[j] = n
                      IN [check |-> BindingPtr(1, i - 1), control |-> BindingPtr(1, i - 1)]]
    /\ attrs = <<>>
    /\ main_pc = "wait"
    /\ exitCode = -1
    /\ ldIndex = IedModel_getLogicalDeviceCount
    /\ stack = <<>>
    /\ visited = PreOrderAll(Devices)
    /\ registered = SelectSeq(visited, IsDataObject)
    /\ growFailedAt = 0
    /\ rd_pc = "loop"
    /\ nLines = 0
    /\ nCtl = 0
    /\ last = Did("IedServer_start", NoInput, <<>>,
                  <<Line("IEC 61850 server started on port", <<>>, <<>>, 0)>>, "running")

ReaderLineWide == ReadFrom(WideLines)

NextBridge ==
    \/ ReaderCheck
    \/ ReaderLineWide
    \/ ReaderEof

SpecBridge == InitBridge /\ [][NextBridge]_vars

-----------------------------------------------------------------------------
(* Start and shutdown on their own: the registration pass is over, without *)
(* a failed or moving realloc, and main is about to start the ingest       *)
(* thread; no control request arrives.                                     *)

InitStartup ==
    /\ mdl \in 1..Len(Models)
    /\ running = 1
    /\ gIedServer = 1
    /\ server = "created"
    /\ gBindings = 1
    /\ gBindingCount = Len(RegistrableInOrder)
    /\ heap = <<[live |-> TRUE,
                 recs |-> [i \in DOMAIN RegistrableInOrder |->
                              NewBinding(RegistrableInOrder[i])]]>>
    /\ handlers = [n \in Range(RegistrableInOrder) |->
                      LET i == CHOOSE j \in DOMAIN RegistrableInOrder :
                                   RegistrableInOrder[j] = n
                      IN [check |-> BindingPtr(1, i - 1), control |-> BindingPtr(1, i - 1)]]
    /\ attrs = <<>>
    /\ main_pc = "thread"
    /\ exitCode = -1
    /\ ldIndex = IedModel_getLogicalDeviceCount
    /\ stack = <<>>
    /\ visited = PreOrderAll(Devices)
    /\ registered = SelectSeq(visited, IsDataObject)
    /\ growFailedAt = 0
    /\ rd_pc = "idle"
    /\ nLines = 0
    /\ nCtl = 0
    /\ last = Did("register_all_control_handlers", NoInput, <<>>,
                  <<Line("Registered %d controllable data object handlers",
                         <<>>, <<>>, Len(RegistrableInOrder))>>, "")

\* the steps of the main thread from Thread_start on, in program order
MainStep ==
    \/ MainThreadStart
    \/ MainServerStart
    \/ MainReturn2
    \/ MainStop
    \/ MainDestroy
    \/ MainJoin
    \/ MainFree

NextShutdown ==
    \/ MainStep
    \/ Sigint
    \/ ReaderCheck
    \/ ReaderEof
    \/ ReaderLine

\* both threads are scheduled: each takes its next step when it can.  Whether
\* fgets returns is up to the process at the other end of stdin
SpecShutdown ==
    InitStartup /\ [][NextShutdown]_vars /\ WF_vars(MainStep) /\ WF_vars(ReaderCheck)

-----------------------------------------------------------------------------
(* Vocabulary of the bridge properties.                                    *)

\* the step before this state handled a line that reached handle_bridge_update
BridgeLine ==
    /\ last.op = "line"
    /\ Trimmed(last.input.text) # <<>>
    /\ strchr(Trimmed(last.input.text), "=") # 0

LastRef == RefOf(Trimmed(last.input.text))
LastVal == ValOf(Trimmed(last.input.text))

Lowered(s) == [i \in 1..Len(s) |-> tolower(s[i])]

\* the reference names a data attribute of the model
ResolvesToAttribute(ref) ==
    LET n == IedModel_getModelNodeByObjectReference(ref)
    IN n # NULL /\ iedModel[n].kind = DataAttributeModelType

PrintedBridgeErr ==
    \E i \in DOMAIN last.out :
        last.out[i].prefix = "BRIDGE_ERR: Node not found or not attribute:"

-----------------------------------------------------------------------------
(* C8.  The value the bridge pushes is decided by the text of the value    *)
(* alone, in this order: text equal to "true" or "false" without regard to *)
(* case gives a boolean, true exactly for "true"; otherwise text with a    *)
(* '.' gives a float; otherwise an INT32, which is 0 for text that starts  *)
(* no number.  "true" and "FALSE" give booleans, "3.14" the float 3.14,    *)
(* "42" the integer 42, "abc" the integer 0, whatever the declared type of *)
(* the attribute written.                                                  *)
C8_TypeInferredFromText ==
    (BridgeLine /\ last.result = "updated") =>
        LET pushed == last.calls[1].value
        IN /\ last.calls[1].fn = "IedServer_updateAttributeValue"
           /\ IF Lowered(LastVal) \in {TextTrue, TextFalse}
              THEN pushed = MmsBoolean(Lowered(LastVal) = TextTrue)
              ELSE IF "." \in Range(LastVal)
              THEN pushed.type = "FLOAT"
              ELSE pushed.type = "INT32"
           /\ LastVal = TextPi => pushed = MmsFloat(314, 2)
           /\ LastVal = Text42 => pushed = MmsInt32(42)
           /\ LastVal = TextAbc => pushed = MmsInt32(0)
           /\ (pushed.type = "INT32" /\ \A i \in DOMAIN LastVal : ~isdigit(LastVal[i]))
                 => pushed.v = 0

\* "abc" was written, as the integer 0, to an attribute declared BOOLEAN
C8_Witness ==
    /\ BridgeLine
    /\ last.result = "updated"
    /\ LastVal = TextAbc
    /\ iedModel[last.calls[1].attr].type = "BOOLEAN"
    /\ last.calls[1].value = MmsInt32(0)

-----------------------------------------------------------------------------
-----------------------------------------------------------------------------
(* C10.  A line is rejected as "node not found or not attribute" only if   *)
(* neither its path nor its path with ".stVal" appended names a data       *)
(* attribute; when either does, also when the path itself names a data     *)
(* object, the update is made.  The code does not keep this: a path that   *)
(* resolves to a node of another kind is rejected without the retry.       *)
C10_RejectedOnlyIfNeitherResolves ==
    (BridgeLine /\ last.result = "rejected") =>
        /\ ~ResolvesToAttribute(LastRef)
        /\ ~ResolvesToAttribute(LastRef \o DotStVal)

-----------------------------------------------------------------------------
(* Vocabulary of the ingest loop properties.                               *)

\* the step just taken was one iteration of the ingest loop
LineStep == last'.op = "line"

NextLine == Trimmed(last'.input.text)

\* the iteration reached handle_bridge_update
DispatchStep == LineStep /\ NextLine # <<>> /\ strchr(NextLine, "=") # 0

\* what handle_bridge_update resolves the reference to is no data attribute
NoAttribute(ref) ==
    LET n == ResolveAttr(ref)
    IN n = NULL \/ iedModel[n].kind # DataAttributeModelType

-----------------------------------------------------------------------------
(* C11.  A line whose path resolves to no data attribute changes no        *)
(* attribute and makes no update call; it prints exactly one BRIDGE_ERR    *)
(* line carrying the path as it was given when running is set and nothing  *)
(* when running is cleared; the ingest thread is then back at the head of  *)
(* its loop, ready for the next line.                                      *)
C11_UnknownPathReported ==
    [][(DispatchStep /\ NoAttribute(RefOf(NextLine))) =>
          /\ last'.result = "rejected"
          /\ last'.calls = <<>>
          /\ attrs' = attrs
          /\ last'.out = IF running # 0
                         THEN <<Line("BRIDGE_ERR: Node not found or not attribute:",
                                     RefOf(NextLine), <<>>, 0)>>
                         ELSE <<>>
          /\ rd_pc' = "loop"
          /\ main_pc' = main_pc]_vars

\* X/Y=5 was read after SIGINT had cleared running: rejected without a line
C11_Witness ==
    /\ last.op = "line"
    /\ RefOf(Trimmed(last.input.text)) = RefUnknown
    /\ last.result = "rejected"
    /\ running = 0
    /\ last.out = <<>>
    /\ rd_pc = "loop"

-----------------------------------------------------------------------------
(* C12.  A line that is empty once its terminator is cut off, and a line   *)
(* without a '=', make no update call, change no attribute and print       *)
(* nothing; the ingest thread is then back at the head of its loop.        *)
C12_MalformedLineIgnored ==
    [][(LineStep /\ (NextLine = <<>> \/ "=" \notin Range(NextLine))) =>
          /\ last'.calls = <<>>
          /\ last'.out = <<>>
          /\ attrs' = attrs
          /\ rd_pc' = "loop"
          /\ main_pc' = main_pc]_vars

\* the text D/L.M.stVal, a valid path without a '=', was read and dropped
C12_Witness ==
    /\ last.op = "line"
    /\ Trimmed(last.input.text) = RefM \o DotStVal
    /\ last.result = "no separator"
    /\ last.out = <<>>
    /\ attrs = <<>>
    /\ rd_pc = "loop"

-----------------------------------------------------------------------------
\* the "t" children of the parent of a node
StampsOf(attr) ==
    LET parent == iedModel[attr].parent
    IN IF parent = NULL THEN {}
       ELSE {c \in Range(Children(parent)) : iedModel[c].name = tName}

(* C13.  As claimed: a line whose path resolves to a data attribute, and   *)
(* whose update goes through, sets that attribute to the value inferred    *)
(* from the text (the stamp coming after it when the attribute is the "t"  *)
(* itself), stamps the "t" of the attribute's parent if and only if the    *)
(* parent has one, and prints exactly one line                             *)
(* BRIDGE_OK: Updated <path> = <value> with the path and the value text as *)
(* given.  This fails once running has been cleared: the update is made    *)
(* and no line is printed.                                                 *)
C13_AsClaimed ==
    [][(/\ DispatchStep
        /\ ~NoAttribute(RefOf(NextLine))
        /\ last'.result = "updated") =>
          LET attr == ResolveAttr(RefOf(NextLine))
          IN /\ attr \notin StampsOf(attr) =>
                   ValueIn(attrs', attr) = InferValue(ValOf(NextLine))
             /\ \A c \in StampsOf(attr) : ValueIn(attrs', c) = UtcNow
             /\ (\E i \in DOMAIN last'.calls :
                     last'.calls[i].fn = "IedServer_updateUTCTimeAttributeValue")
                   <=> (StampsOf(attr) # {})
             /\ last'.out = <<Line("BRIDGE_OK: Updated", RefOf(NextLine),
                                   ValOf(NextLine), 0)>>]_vars

(* C13, amended.  A line whose path resolves to a data attribute either    *)
(* builds no value, and then updates and prints nothing, or calls the      *)
(* update API with that attribute and the value inferred from the text.    *)
(* When that call returns, the "t" of the attribute's parent is stamped if *)
(* and only if the parent has one, so the attribute holds the inferred     *)
(* value unless it is that "t" itself, and the line BRIDGE_OK: Updated     *)
(* <path> = <value>, with the path and the value text as given, is printed *)
(* exactly once when running is set and not at all when it is cleared.     *)
(* The call does not return only when it faults on a server that           *)
(* IedServer_destroy has already released.                                 *)
C13_UpdateThenStampThenConfirm ==
    [][(DispatchStep /\ ~NoAttribute(RefOf(NextLine))) =>
          LET attr == ResolveAttr(RefOf(NextLine))
              value == InferValue(ValOf(NextLine))
          IN \/ /\ last'.result = "no value"
                /\ last'.calls = <<>>
                /\ last'.out = <<>>
                /\ attrs' = attrs
             \/ /\ last'.result = "updated"
                /\ last'.calls[1] = UpdateCall(attr, value)
                /\ Len(last'.calls) = IF StampsOf(attr) = {} THEN 1 ELSE 2
                /\ \A c \in StampsOf(attr) :
                      /\ last'.calls[2] = UtcCall(c)
                      /\ ValueIn(attrs', c) = UtcNow
                /\ attr \notin StampsOf(attr) => ValueIn(attrs', attr) = value
                /\ \A n \in Nodes \ ({attr} \cup StampsOf(attr)) :
                      ValueIn(attrs', n) = ValueIn(attrs, n)
                /\ last'.out = IF running # 0
                               THEN <<Line("BRIDGE_OK: Updated", RefOf(NextLine),
                                           ValOf(NextLine), 0)>>
                               ELSE <<>>
                /\ rd_pc' = "loop"
             \/ /\ last'.result = Crashed
                /\ server = "destroyed"
                /\ last'.calls = <<UpdateCall(attr, value)>>
                /\ last'.out = <<>>]_vars

\* D/L.M.stVal=true was applied and stamped after SIGINT had cleared
\* running: no confirmation line
C13_Witness ==
    /\ last.op = "line"
    /\ last.result = "updated"
    /\ RefOf(Trimmed(last.input.text)) = RefM \o DotStVal
    /\ Len(last.calls) = 2
    /\ ValueIn(attrs, last.calls[1].attr) = MmsBoolean(TRUE)
    /\ ValueIn(attrs, last.calls[2].attr) = UtcNow
    /\ running = 0
    /\ last.out = <<>>

-----------------------------------------------------------------------------
(* C14.  main waits for the ingest thread before it releases what the      *)
(* thread shares: no line makes an update call on a server that            *)
(* IedServer_destroy has released, and no handler runs with the binding    *)
(* collection once it is freed, on the normal shutdown path and on the     *)
(* start-failure path.  The code does not keep this: IedServer_destroy     *)
(* comes before Thread_destroy on the normal path, and the start-failure   *)
(* path destroys the server without joining the thread at all.             *)
C14_JoinBeforeRelease ==
    [][/\ (LineStep /\ last'.calls # <<>>) => server # "destroyed"
       /\ (ControlStep \/ CheckStep) =>
             (gBindings = NULL \/ heap[gBindings].live)]_vars

-----------------------------------------------------------------------------
(* C15.  As claimed: once the server has started and SIGINT has cleared    *)
(* running, the process eventually exits with code 0 (or has faulted),     *)
(* with both threads scheduled fairly and nothing assumed about stdin.     *)
(* This fails when the ingest thread is blocked in fgets and no line and   *)
(* no end of input arrives: Thread_destroy then never returns.             *)
C15_AsClaimed ==
    (main_pc = "wait" /\ running = 0) ~> (exitCode = 0 \/ main_pc = "crashed")

(* C15, amended.  Once the server has started and SIGINT has cleared       *)
(* running, with both threads scheduled fairly, the ingest loop stops and  *)
(* the process exits with code 0 provided the read the ingest thread is in *)
(* returns (a line or the end of input arrives); the one other end is a    *)
(* fault when that last line is applied to the server already destroyed.   *)
C15_ShutdownOnceReadReturns ==
    \/ <>[](rd_pc = "fgets")
    \/ (main_pc = "wait" /\ running = 0)
           ~> ((exitCode = 0 /\ rd_pc = "done") \/ main_pc = "crashed")

\* shutdown after SIGINT ran to its end: the thread was joined after the
\* read it was in had returned a line, and main returned 0
C15_Witness ==
    /\ main_pc = "exited"
    /\ exitCode = 0
    /\ running = 0
    /\ rd_pc = "done"
    /\ nLines > 0
    /\ server = "destroyed"

-----------------------------------------------------------------------------
\* the binding collection: where it is, how many records, and every record
\* realloc ever handed out
Registry == <<gBindings, gBindingCount, [b \in DOMAIN heap |-> heap[b].recs]>>

(* C16.  The binding collection is written only by the registration pass   *)
(* of startup: the pass is over before the ingest thread is started and    *)
(* before the server serves a request, and from then on no step, be it a   *)
(* control or check handler, a bridge line, SIGINT or a step of shutdown,  *)
(* changes the collection's address, its count, one of its records or the  *)
(* context installed for a handler; shutdown only releases the block.      *)
C16_RegistryWrittenOnlyAtStartup ==
    [][/\ (Registry' # Registry \/ handlers' # handlers) =>
             (main_pc = "register" /\ rd_pc = "idle" /\ server = "created")
       /\ (ControlStep \/ CheckStep \/ LineStep \/ last'.op = "sigint_handler") =>
             UNCHANGED <<gBindings, gBindingCount, heap, handlers>>
       /\ (rd_pc' # "idle" \/ server' = "running") =>
             main_pc' \notin {"create", "register"}]_vars

\* an operate went through after a bridge line and SIGINT, with the two
\* records of the registration pass in place
C16_Witness ==
    /\ last.op = "generic_control_handler"
    /\ last.calls # <<>>
    /\ nLines > 0
    /\ running = 0
    /\ gBindingCount = 2
    /\ Len(Bindings) = 2

-----------------------------------------------------------------------------
(* C17.  Once a growth of the binding collection has failed, the count is  *)
(* zero and stays zero: no later registration of the pass adds a binding,  *)
(* and the summary line reports 0.  The code does not keep this: after the *)
(* failure gBindings is NULL and the next realloc may succeed, so later    *)
(* data objects are registered again.                                      *)
C17_NoBindingAfterFailedGrowth ==
    /\ growFailedAt > 0 => (gBindingCount = 0 /\ Bindings = <<>>)
    /\ (last.op = "register_all_control_handlers" /\ growFailedAt > 0) =>
           last.out[1].n = 0

-----------------------------------------------------------------------------
\* the pointer refers to the record of data object n in the collection as it
\* is now
RefersToLiveRecordOf(p, n) ==
    /\ p # NullBinding
    /\ p.blk = gBindings
    /\ heap[p.blk].live
    /\ p.idx <= gBindingCount
    /\ heap[p.blk].recs[p.idx].controlDo = n

(* C18.  Once the registration pass is over (no growth having failed), the *)
(* parameter installed for the check handler and for the control handler   *)
(* of every registered data object points to a record of the collection as *)
(* it is now, in a block that has not been released, and that record is    *)
(* the one of that data object.  The code does not keep this: the          *)
(* parameter is &gBindings[i] as it was when the data object was           *)
(* registered, and a later realloc that moves the collection releases the  *)
(* block it points into.                                                   *)
C18_ContextIsOwnLiveRecord ==
    (RegistryBuilt /\ growFailedAt = 0) =>
        \A n \in DOMAIN handlers :
            /\ RefersToLiveRecordOf(handlers[n].check, n)
            /\ RefersToLiveRecordOf(handlers[n].control, n)

-----------------------------------------------------------------------------
(* C19.  running only ever goes from set to cleared.  Once it is cleared   *)
(* the ingest thread reads, and so hands to handle_bridge_update, at most  *)
(* one more line, and that only when it was already in fgets at that       *)
(* moment; otherwise it reads none; then it leaves its loop.               *)
C19_AtMostOneLineAfterClear ==
    /\ [][running' # running => (running = 1 /\ running' = 0)]_vars
    /\ \A k \in 0..MaxLines :
          [](( running = 0 /\ nLines = k) => [](nLines <= k + 1))
    /\ \A k \in 0..MaxLines :
          [](( running = 0 /\ rd_pc # "fgets" /\ nLines = k) => [](nLines <= k))

\* a second line was applied after SIGINT had cleared running while the
\* thread was in fgets
C19_Witness ==
    /\ last.op = "line"
    /\ last.result = "updated"
    /\ running = 0
    /\ nLines = 2
    /\ rd_pc = "loop"

-----------------------------------------------------------------------------
\* the stVal and t attributes of data object d
OwnAttrs(d) ==
    {c \in Range(Children(d)) : iedModel[c].name \in {stVal, tName}}

(* C20.  An operate on a registered control point, neither test nor        *)
(* select, changes nothing but the stVal and the t of that control point:  *)
(* every other attribute, the binding collection with all its records, the *)
(* installed handlers and running stay as they were.  The code does not    *)
(* keep this: a handler whose parameter points into a released block may   *)
(* write the attributes of another control point.                          *)
C20_OperateTouchesOwnPointOnly ==
    [][(/\ ControlStep
        /\ ~last'.input.test
        /\ ~ControlAction_isSelect(last'.input.action)
        /\ last'.input.d # NULL) =>
          /\ \A n \in Nodes \ OwnAttrs(last'.input.d) :
                ValueIn(attrs', n) = ValueIn(attrs, n)
          /\ \A i \in DOMAIN last'.calls : last'.calls[i].attr \in OwnAttrs(last'.input.d)
          /\ UNCHANGED <<gBindings, gBindingCount, heap, handlers, running>>]_vars

====
